---- MODULE Spec2Model ----
(***************************************************************************)
(* Session lifecycle of CyberSecurityBot                                   *)
(* (src/Accurate-Cyber-Defense-Network-Traffic-Generator-Bot.py).          *)
(*                                                                         *)
(* One foreground thread executes the commands of run_command one at a     *)
(* time; every generate_traffic / start_monitoring call that is accepted   *)
(* spawns a daemon thread running the closure traffic_thread /             *)
(* monitoring_thread.  All threads share the attributes of the bot object  *)
(* and nothing synchronises them.                                          *)
(*                                                                         *)
(* A step of a worker thread is one access to a shared attribute together  *)
(* with the thread-local work that follows it.  A foreground call is cut   *)
(* where the claims need another thread to run in between: before the      *)
(* thread is started (lines 203, 276) and before a stop call reads         *)
(* current_target (lines 210, 283).  A call that returns leaves the        *)
(* foreground at "ret", where the shell prints the result before it reads  *)
(* the next command (lines 438-442); printing touches nothing shared and   *)
(* commutes with every step of a worker, so it is taken first.             *)
(*                                                                         *)
(* Optional values (Python None) are sequences of length 0 or 1.  Time of  *)
(* a traffic worker is counted in ticks of 1/pps seconds.  log_activity    *)
(* and send_telegram_message are the logging / notification sinks:         *)
(* "emitted" holds what the last step handed to them and "result" what     *)
(* the last step returned to the caller of a command.  Threads are kept    *)
(* as a bag of their local states.                                         *)
(*                                                                         *)
(* Spec is the console with an operator who stays; FairSpec adds fair      *)
(* scheduling, ExitSpec the exit command and the end of the process.       *)
(* MonitorSpec is the console used for monitoring only, started from a     *)
(* stored configuration, and ValidatorSpec the console used for ping only, *)
(* over a wide set of address strings.                                     *)
(***************************************************************************)
EXTENDS Integers, Sequences, FiniteSets, Bags, TLC

\* ------------------------------------------------------------------ bounds
\* Total number of worker threads the foreground may start in one run.
MaxSessions == 2
\* DEFAULT_CONFIG monitoring_interval and traffic_generation_duration in
\* seconds, scaled down (source: 60 and 30).
MaxInterval == 1
MaxDuration == 1

\* ------------------------------------------------------------------ values
None == <<>>
Some(x) == <<x>>
Val(o) == o[1]

\* An address string is the sequence of its dot-separated numeric parts:
\* "10.0.0.1" is <<10, 0, 0, 1>>.  Addresses offered to generate_traffic and
\* to start_monitoring; inet_aton rejects the last one of each.
TrafficIpArgs == { <<10, 0, 0, 1>>, <<999, 999, 999, 999>> }
MonitorIpArgs == { <<8, 8, 8, 8>>, <<10, 0, 0, 1>>, <<999, 999, 999, 999>> }

\* Arguments of generate_traffic.  Ports: omitted, negative, zero, in range,
\* above the range.
PortArgs == {None, Some(-1), Some(0), Some(443), Some(65536)}
DurationArgs == {None}
PpsArgs == {None}

\* Keys offered to set_config: monitoring_interval and one key DEFAULT_CONFIG
\* does not have.  A value is the integer int() parses, or None for text
\* int() rejects.
ConfigKeys == {"monitoring_interval", "verbose"}
ConfigValues == {Some(-1), Some(MaxInterval), None}

\* Largest number of dot-separated parts of an address given to ping.
MaxParts == 5

\* The parts an address string is made of: numbers, and -1 for a part that
\* is no number (empty, letters, a sign).
Parts == {-1, 0, 1, 255, 256}

\* The address strings given to ping, as the sequences of their parts.
AddressStrings == UNION { [1..n -> Parts] : n \in 1..MaxParts }

\* Lines 25-33, scaled down: one packet per second, one default port.
DEFAULT_CONFIG ==
    [ monitoring_interval |-> MaxInterval,
      traffic_generation_duration |-> MaxDuration,
      max_packets_per_second |-> 1,
      default_ports |-> <<443>> ]

VARIABLES
    monitoring_active,          \* self.monitoring_active
    traffic_generation_active,  \* self.traffic_generation_active
    current_target,             \* self.current_target (optional address)
    current_port,               \* self.current_port (optional port)
    config,                     \* self.config
    fpc,                        \* position of the foreground thread
    call,                       \* locals of the foreground call in progress
    workers,                    \* the started threads: a bag of local states
    result,                     \* what the last step returned to the caller
    emitted                     \* what the last step logged / notified

vars == << monitoring_active, traffic_generation_active, current_target,
           current_port, config, fpc, call, workers, result, emitted >>

NoCall == [ip |-> <<>>, port |-> 0, duration |-> 0, pps |-> 0]
NoResult == [kind |-> "none", target |-> None, port |-> None]
Result(k, t, p) == [kind |-> k, target |-> t, port |-> p]
Msg(k, t, p, n) == [kind |-> k, target |-> t, port |-> p, count |-> n]

\* A step that returns r and hands the messages m to the sinks.
Out(r, m) == result' = r /\ emitted' = m
Silent == Out(NoResult, <<>>)

\* ------------------------------------------------------------- validators
\* socket.inet_aton: one to four numeric parts; every part but the last is
\* at most 255 and the last fills the remaining bytes (a single part fills
\* all four: every number used here is below 256^4).
inet_aton_ok(ip) ==
    /\ Len(ip) \in 1..4
    /\ \A i \in 1..Len(ip) : ip[i] >= 0
    /\ \A i \in 1..(Len(ip) - 1) : ip[i] <= 255
    /\ Len(ip) = 1 \/ ip[Len(ip)] < 256 ^ (5 - Len(ip))

validate_ip(ip) == inet_aton_ok(ip)

validate_port(port) == 1 <= port /\ port <= 65535

\* Python truth value of an optional integer argument: None and 0 are false.
Truthy(o) == o # None /\ Val(o) # 0

SeqRange(s) == { s[i] : i \in 1..Len(s) }

Min(a, b) == IF a <= b THEN a ELSE b

\* ----------------------------------------------------------------- workers
\* stopped: a stop call has cleared the flag while the thread was in its loop.
\* cleared: the thread has itself cleared the flag of its kind.
TrafficWorker(c) ==
    [ kind |-> "traffic", pc |-> "t174", ip |-> c.ip, port |-> c.port,
      limit |-> c.duration * c.pps, rate |-> c.pps, elapsed |-> 0,
      count |-> 0, left |-> 0, stopped |-> FALSE, cleared |-> FALSE ]

MonitorWorker(c) ==
    [ kind |-> "monitor", pc |-> "m232", ip |-> c.ip, port |-> 0,
      limit |-> 0, rate |-> 0, elapsed |-> 0,
      count |-> 0, left |-> 0, stopped |-> FALSE, cleared |-> FALSE ]

Ended(w) == w.pc \in {"done", "crashed"}
InLoop(w) == w.pc \in {"t174", "m232", "m262", "m268"}

\* What remains of a thread once it has ended.
Corpse(w, how) ==
    [ kind |-> w.kind, pc |-> how, ip |-> <<>>, port |-> 0, limit |-> 0,
      rate |-> 0, elapsed |-> 0, count |-> 0, left |-> 0,
      stopped |-> FALSE, cleared |-> w.cleared ]

Threads == BagToSet(workers)

\* A thread takes a step; a result waiting to be printed is printed first,
\* and the daemon threads end with the process.
Runnable(w) == fpc \notin {"ret", "exited"} /\ w \in Threads

\* threading.Thread(...).start()
Spawned(w) == workers (+) SetToBag({w})

\* Thread w moves to local state w2.
Moved(w, w2) == (workers (-) SetToBag({w})) (+) SetToBag({w2})

\* The threads of one kind that are in their loop are marked as asked to stop.
AskedToStop(w, k) ==
    IF w.kind = k /\ InLoop(w) THEN [w EXCEPT !.stopped = TRUE] ELSE w

MarkStopped(k) ==
    LET img == { AskedToStop(w, k) : w \in Threads }
    IN  [ v \in img |->
            CopiesIn(v, workers)
            + (IF v.stopped /\ [v EXCEPT !.stopped = FALSE] \in Threads
                  /\ AskedToStop([v EXCEPT !.stopped = FALSE], k) = v
               THEN CopiesIn([v EXCEPT !.stopped = FALSE], workers) ELSE 0) ]

Init ==
    /\ monitoring_active = FALSE
    /\ traffic_generation_active = FALSE
    /\ current_target = None
    /\ current_port = None
    /\ config = DEFAULT_CONFIG
    /\ fpc = "idle"
    /\ call = NoCall
    /\ workers = EmptyBag
    /\ result = NoResult
    /\ emitted = <<>>

\* ------------------------------------------------------- generate_traffic
\* Lines 147-168: validation, defaults, the three attributes, the start
\* message.
GT_Begin(ip, port, duration, pps) ==
    /\ fpc = "idle"
    /\ UNCHANGED << monitoring_active, config, workers >>
    /\ IF ~validate_ip(ip)
       THEN /\ Out(Result("invalid_ip", Some(ip), None), <<>>)
            /\ fpc' = "ret"
            /\ UNCHANGED << traffic_generation_active, current_target,
                            current_port, call >>
       ELSE IF Truthy(port) /\ ~validate_port(Val(port))
       THEN /\ Out(Result("invalid_port", None, port), <<>>)
            /\ fpc' = "ret"
            /\ UNCHANGED << traffic_generation_active, current_target,
                            current_port, call >>
       ELSE /\ BagCardinality(workers) < MaxSessions
            /\ \E p \in (IF Truthy(port) THEN {Val(port)}
                         ELSE SeqRange(config.default_ports)) :
                 /\ call' = [ ip |-> ip, port |-> p,
                              duration |-> IF Truthy(duration) THEN Val(duration)
                                           ELSE config.traffic_generation_duration,
                              pps |-> IF Truthy(pps) THEN Val(pps)
                                      ELSE config.max_packets_per_second ]
                 /\ current_target' = Some(ip)
                 /\ current_port' = Some(p)
                 /\ traffic_generation_active' = TRUE
                 /\ Out(NoResult, << Msg("traffic_started", Some(ip), Some(p), 0) >>)
            /\ fpc' = "gt203"

\* Lines 203-204: the thread is started and the call returns.
GT_203 ==
    /\ fpc = "gt203"
    /\ workers' = Spawned(TrafficWorker(call))
    /\ fpc' = "ret"
    /\ call' = NoCall
    /\ Out(Result("started_traffic", Some(call.ip), Some(call.port)), <<>>)
    /\ UNCHANGED << monitoring_active, traffic_generation_active,
                    current_target, current_port, config >>

\* --------------------------------------------------------- traffic_thread
UnitOutcomes == {"ok", "connect_failed", "send_failed"}

\* A traffic thread without the back-off of line 193: a failed unit of work
\* takes no time.
T_Unit_NoBackoff(w, outcome) ==
    /\ Runnable(w)
    /\ w.pc = "t174"
    /\ w.elapsed < w.limit
    /\ traffic_generation_active
    /\ LET n == IF outcome = "connect_failed" THEN w.count ELSE w.count + 1
           d == IF outcome = "ok" THEN 1 ELSE 0
       IN  /\ workers' = Moved(w, [w EXCEPT !.count = n,
                                            !.elapsed = Min(w.limit, w.elapsed + d)])
           /\ Out(NoResult,
                  IF outcome = "ok" THEN <<>>
                  ELSE << Msg("traffic_error", Some(w.ip), Some(w.port), n) >>)
    /\ UNCHANGED << monitoring_active, traffic_generation_active,
                    current_target, current_port, config, fpc, call >>

\* A traffic thread whose handler gives up: a failed unit of work is logged
\* and the thread leaves its loop.
T_Unit_FailStops(w, outcome) ==
    /\ Runnable(w)
    /\ w.pc = "t174"
    /\ w.elapsed < w.limit
    /\ traffic_generation_active
    /\ LET n == IF outcome = "connect_failed" THEN w.count ELSE w.count + 1
       IN  /\ workers' = Moved(w, IF outcome = "ok"
                                  THEN [w EXCEPT !.count = n,
                                                 !.elapsed = Min(w.limit, w.elapsed + 1)]
                                  ELSE [w EXCEPT !.count = n, !.pc = "t195",
                                                 !.stopped = FALSE])
           /\ Out(NoResult,
                  IF outcome = "ok" THEN <<>>
                  ELSE << Msg("traffic_error", Some(w.ip), Some(w.port), n) >>)
    /\ UNCHANGED << monitoring_active, traffic_generation_active,
                    current_target, current_port, config, fpc, call >>

\* Lines 174-193: the loop condition and, when it holds, one unit of work.
\* The connect raises, or it succeeds and the packet is counted (line 182)
\* before send / close either succeed (sleep 1/pps: one tick) or raise
\* (handler: log, sleep 1 s: pps ticks).  The thread is back at line 174.
T_Unit(w, outcome) ==
    /\ Runnable(w)
    /\ w.pc = "t174"
    /\ w.elapsed < w.limit
    /\ traffic_generation_active
    /\ LET n == IF outcome = "connect_failed" THEN w.count ELSE w.count + 1
           d == IF outcome = "ok" THEN 1 ELSE w.rate
       IN  /\ workers' = Moved(w, [w EXCEPT !.count = n,
                                            !.elapsed = Min(w.limit, w.elapsed + d)])
           /\ Out(NoResult,
                  IF outcome = "ok" THEN <<>>
                  ELSE << Msg("traffic_error", Some(w.ip), Some(w.port), n) >>)
    /\ UNCHANGED << monitoring_active, traffic_generation_active,
                    current_target, current_port, config, fpc, call >>

\* Line 174: the loop condition fails; the thread leaves the loop.
T_Exit(w) ==
    /\ Runnable(w)
    /\ w.pc = "t174"
    /\ ~(w.elapsed < w.limit /\ traffic_generation_active)
    /\ workers' = Moved(w, [w EXCEPT !.pc = "t195", !.stopped = FALSE])
    /\ Silent
    /\ UNCHANGED << monitoring_active, traffic_generation_active,
                    current_target, current_port, config, fpc, call >>

T_195(w) ==
    /\ Runnable(w)
    /\ w.pc = "t195"
    /\ traffic_generation_active' = FALSE
    /\ workers' = Moved(w, [w EXCEPT !.pc = "t196", !.cleared = TRUE])
    /\ Silent
    /\ UNCHANGED << monitoring_active, current_target, current_port, config,
                    fpc, call >>

\* Lines 196-201: the target and the port, then the completion summary; the
\* thread ends.
T_196(w) ==
    /\ Runnable(w)
    /\ w.pc = "t196"
    /\ current_target' = None
    /\ current_port' = None
    /\ Out(NoResult, << Msg("traffic_completed", Some(w.ip), Some(w.port), w.count) >>)
    /\ workers' = Moved(w, Corpse(w, "done"))
    /\ UNCHANGED << monitoring_active, traffic_generation_active,
                    config, fpc, call >>

\* ------------------------------------------------------------ stop_traffic
\* A stop_traffic that does not look at the flag: it always takes the branch
\* of an active session.
ST_Begin_Unguarded ==
    /\ fpc = "idle"
    /\ UNCHANGED << monitoring_active, current_target, current_port, config, call >>
    /\ traffic_generation_active' = FALSE
    /\ workers' = MarkStopped("traffic")
    /\ fpc' = "st210"
    /\ Silent

\* Lines 208-209: the check of the flag and, when it is set, its reset.
ST_Begin ==
    /\ fpc = "idle"
    /\ UNCHANGED << monitoring_active, current_target, current_port, config, call >>
    /\ IF traffic_generation_active
       THEN /\ traffic_generation_active' = FALSE
            /\ workers' = MarkStopped("traffic")
            /\ fpc' = "st210"
            /\ Silent
       ELSE /\ UNCHANGED << traffic_generation_active, workers >>
            /\ fpc' = "ret"
            /\ Out(Result("no_traffic_to_stop", None, None), <<>>)

\* Lines 210-213: the message is built from current_target and current_port.
ST_210 ==
    /\ fpc = "st210"
    /\ fpc' = "ret"
    /\ Out(Result("stopped_traffic", current_target, current_port),
           << Msg("traffic_stopped", current_target, current_port, 0) >>)
    /\ UNCHANGED << monitoring_active, traffic_generation_active,
                    current_target, current_port, config, call, workers >>

\* -------------------------------------------------------- start_monitoring
\* Lines 218-229: validation, the check of the flag, the two attributes, the
\* start message.
SM_Begin(ip) ==
    /\ fpc = "idle"
    /\ UNCHANGED << traffic_generation_active, current_port, config, workers >>
    /\ IF ~validate_ip(ip)
       THEN /\ Out(Result("invalid_ip", Some(ip), None), <<>>)
            /\ fpc' = "ret"
            /\ UNCHANGED << monitoring_active, current_target, call >>
       ELSE IF monitoring_active
       THEN /\ Out(Result("monitoring_already_active", None, None), <<>>)
            /\ fpc' = "ret"
            /\ UNCHANGED << monitoring_active, current_target, call >>
       ELSE /\ BagCardinality(workers) < MaxSessions
            /\ call' = [NoCall EXCEPT !.ip = ip]
            /\ monitoring_active' = TRUE
            /\ current_target' = Some(ip)
            /\ Out(NoResult, << Msg("monitoring_started", Some(ip), None,
                                    config.monitoring_interval) >>)
            /\ fpc' = "sm276"

\* Lines 276-277: the thread is started and the call returns.
SM_276 ==
    /\ fpc = "sm276"
    /\ workers' = Spawned(MonitorWorker(call))
    /\ fpc' = "ret"
    /\ call' = NoCall
    /\ Out(Result("started_monitoring", Some(call.ip), None), <<>>)
    /\ UNCHANGED << monitoring_active, traffic_generation_active,
                    current_target, current_port, config >>

\* ------------------------------------------------------ monitoring_thread
\* What one probe of a port (lines 241-248) can meet: connect_ex returns 0,
\* connect_ex returns an error code, or socket(), connect_ex() or close()
\* raises.
ProbeOutcomes ==
    {"connected", "refused", "socket_raised", "connect_raised", "close_raised"}

\* port_status[port] = status (a dict assignment).
Assign(d, k, v) == [ x \in (DOMAIN d) \cup {k} |-> IF x = k THEN v ELSE d[x] ]

\* A probe that has no handler: the port of a probe that raises is left out.
ProbePort_NoHandler(d, port, outcome) ==
    IF outcome \in {"socket_raised", "connect_raised"} THEN d
    ELSE Assign(d, port, IF outcome = "refused" THEN "closed" ELSE "open")

\* Lines 241-248: one iteration of the loop over the ports.  Line 245 writes
\* open or closed once connect_ex has returned; the handler of line 248
\* writes error, also over the entry of line 245 when close() raises.
ProbePort(d, port, outcome) ==
    IF outcome \in {"socket_raised", "connect_raised"}
    THEN Assign(d, port, "error")
    ELSE LET d247 == Assign(d, port, IF outcome = "refused" THEN "closed" ELSE "open")
         IN  IF outcome = "close_raised" THEN Assign(d247, port, "error") ELSE d247

\* Lines 239-248: port_status = {} and the loop over default_ports.
RECURSIVE probe_ports(_, _, _)
probe_ports(ports, outcomes, d) ==
    IF ports = <<>> THEN d
    ELSE probe_ports(Tail(ports), Tail(outcomes),
                     ProbePort(d, Head(ports), Head(outcomes)))

\* One outcome for each entry of default_ports; none when the cycle raises
\* before the ports are probed (ping_ip, line 235).
ProbeRuns(raised) ==
    IF raised THEN { <<>> } ELSE [ 1..Len(config.default_ports) -> ProbeOutcomes ]

\* The threads at line 232.
AtLoopHead == { w \in Threads : w.pc = "m232" }

\* Lines 250-258: the report of one cycle.
Report(ip, port_status) ==
    [ kind |-> "monitoring_report", target |-> Some(ip), port |-> None,
      count |-> 0, port_status |-> port_status ]

\* Lines 232-261 and 266-268: the loop condition and, when it holds, one
\* cycle.  Either the ports are probed, the report is emitted and the wait
\* of range(monitoring_interval) ticks begins, or the cycle raises (ping_ip
\* catches CalledProcessError only) and the handler logs and calls
\* time.sleep(monitoring_interval), which raises ValueError outside any try
\* when the interval is negative.
M_Cycle(w, raised, outcomes) ==
    /\ Runnable(w)
    /\ w.pc = "m232"
    /\ monitoring_active
    /\ LET n == config.monitoring_interval
       IN  IF ~raised
           THEN /\ Out(NoResult,
                       << Report(w.ip, probe_ports(config.default_ports, outcomes, <<>>)) >>)
                /\ workers' = Moved(w, IF n > 0 THEN [w EXCEPT !.pc = "m262", !.left = n]
                                       ELSE w)
           ELSE /\ Out(NoResult, << Msg("monitoring_error", Some(w.ip), None, 0) >>)
                /\ workers' = Moved(w, IF n < 0 THEN Corpse(w, "crashed")
                                       ELSE [w EXCEPT !.pc = "m268", !.left = n])
    /\ UNCHANGED << monitoring_active, traffic_generation_active,
                    current_target, current_port, config, fpc, call >>

\* Line 232: the loop condition fails; the thread leaves the loop.
M_Exit(w) ==
    /\ Runnable(w)
    /\ w.pc = "m232"
    /\ ~monitoring_active
    /\ workers' = Moved(w, [w EXCEPT !.pc = "m270", !.stopped = FALSE])
    /\ Silent
    /\ UNCHANGED << monitoring_active, traffic_generation_active,
                    current_target, current_port, config, fpc, call >>

\* Lines 261-264: one iteration of the wait: the flag is read, then one
\* second is slept; after the last iteration the thread is back at line 232.
M_Wait(w) ==
    /\ Runnable(w)
    /\ w.pc = "m262"
    /\ workers' = Moved(w, IF ~monitoring_active \/ w.left = 1
                           THEN [w EXCEPT !.pc = "m232", !.left = 0]
                           ELSE [w EXCEPT !.left = w.left - 1])
    /\ Silent
    /\ UNCHANGED << monitoring_active, traffic_generation_active,
                    current_target, current_port, config, fpc, call >>

\* Line 268: one second of time.sleep(monitoring_interval) passes; the flag
\* is not read.  After the last second the thread is back at line 232.
M_Sleep(w) ==
    /\ Runnable(w)
    /\ w.pc = "m268"
    /\ workers' = Moved(w, IF w.left <= 1
                           THEN [w EXCEPT !.pc = "m232", !.left = 0]
                           ELSE [w EXCEPT !.left = w.left - 1])
    /\ Silent
    /\ UNCHANGED << monitoring_active, traffic_generation_active,
                    current_target, current_port, config, fpc, call >>

M_270(w) ==
    /\ Runnable(w)
    /\ w.pc = "m270"
    /\ monitoring_active' = FALSE
    /\ workers' = Moved(w, [w EXCEPT !.pc = "m271", !.cleared = TRUE])
    /\ Silent
    /\ UNCHANGED << traffic_generation_active, current_target, current_port,
                    config, fpc, call >>

\* Lines 271-274: the target, then the stop notification; the thread ends.
M_271(w) ==
    /\ Runnable(w)
    /\ w.pc = "m271"
    /\ current_target' = None
    /\ Out(NoResult, << Msg("monitoring_stopped", Some(w.ip), None, 0) >>)
    /\ workers' = Moved(w, Corpse(w, "done"))
    /\ UNCHANGED << monitoring_active, traffic_generation_active, current_port,
                    config, fpc, call >>

\* --------------------------------------------------------- stop_monitoring
\* Lines 281-282: the check of the flag and, when it is set, its reset.
STM_Begin ==
    /\ fpc = "idle"
    /\ UNCHANGED << traffic_generation_active, current_target, current_port,
                    config, call >>
    /\ IF monitoring_active
       THEN /\ monitoring_active' = FALSE
            /\ workers' = MarkStopped("monitor")
            /\ fpc' = "stm283"
            /\ Silent
       ELSE /\ UNCHANGED << monitoring_active, workers >>
            /\ fpc' = "ret"
            /\ Out(Result("no_monitoring_to_stop", None, None), <<>>)

\* Line 283: the message is built from current_target.
STM_283 ==
    /\ fpc = "stm283"
    /\ fpc' = "ret"
    /\ Out(Result("stopping_monitoring", current_target, None), <<>>)
    /\ UNCHANGED << monitoring_active, traffic_generation_active,
                    current_target, current_port, config, call, workers >>

\* ------------------------------------------------------------- show_status
\* What show_status prints: a target is shown only for an active kind.
Status ==
    [ monitorActive |-> monitoring_active,
      monitorTarget |-> IF monitoring_active THEN Some(current_target) ELSE None,
      trafficActive |-> traffic_generation_active,
      trafficTarget |-> IF traffic_generation_active THEN Some(current_target) ELSE None,
      trafficPort |-> IF traffic_generation_active THEN Some(current_port) ELSE None ]

\* -------------------------------------------------------------- set_config
set_config(key, value) ==
    /\ fpc = "idle"
    /\ fpc' = "ret"
    /\ UNCHANGED << monitoring_active, traffic_generation_active,
                    current_target, current_port, call, workers >>
    /\ IF key \notin DOMAIN DEFAULT_CONFIG
       THEN /\ Out(Result("invalid_config_key", None, None), <<>>)
            /\ UNCHANGED config
       ELSE IF value = None
       THEN /\ Out(Result("invalid_config_value", None, None), <<>>)
            /\ UNCHANGED config
       ELSE /\ config' = [config EXCEPT ![key] = Val(value)]
            /\ Out(Result("config_updated", None, value), <<>>)

\* ------------------------------------------------------------------- start
\* Lines 438-442: the result of the command is printed and the next command
\* is read.
Prompt ==
    /\ fpc = "ret"
    /\ fpc' = "idle"
    /\ Silent
    /\ UNCHANGED << monitoring_active, traffic_generation_active,
                    current_target, current_port, config, call, workers >>

\* -------------------------------------------------------------------- Next
Foreground ==
    \/ \E ip \in TrafficIpArgs, port \in PortArgs, d \in DurationArgs, r \in PpsArgs :
         GT_Begin(ip, port, d, r)
    \/ GT_203
    \/ ST_Begin \/ ST_210
    \/ \E ip \in MonitorIpArgs : SM_Begin(ip)
    \/ SM_276
    \/ STM_Begin \/ STM_283
    \/ \E k \in ConfigKeys, v \in ConfigValues : set_config(k, v)
    \/ Prompt

Worker(w) ==
    \/ \E o \in UnitOutcomes : T_Unit(w, o)
    \/ T_Exit(w) \/ T_195(w) \/ T_196(w)
    \/ \E raised \in BOOLEAN : \E outcomes \in ProbeRuns(raised) :
         M_Cycle(w, raised, outcomes)
    \/ M_Exit(w) \/ M_Wait(w) \/ M_Sleep(w)
    \/ M_270(w) \/ M_271(w)

Workers ==
    \/ \E w \in Threads, o \in UnitOutcomes : T_Unit(w, o)
    \/ \E w \in Threads : T_Exit(w)
    \/ \E w \in Threads : T_195(w)
    \/ \E w \in Threads : T_196(w)
    \/ \E w \in AtLoopHead, raised \in BOOLEAN : \E outcomes \in ProbeRuns(raised) :
         M_Cycle(w, raised, outcomes)
    \/ \E w \in Threads : M_Exit(w)
    \/ \E w \in Threads : M_Wait(w)
    \/ \E w \in Threads : M_Sleep(w)
    \/ \E w \in Threads : M_270(w)
    \/ \E w \in Threads : M_271(w)

Next == Foreground \/ Workers

Spec == Init /\ [][Next]_vars

\* Fair scheduling: the foreground finishes the call it is in, and every
\* thread that can take a step infinitely often takes one, whether or not a
\* stop call has marked it.
ForegroundResumes == GT_203 \/ ST_210 \/ SM_276 \/ STM_283 \/ Prompt
MarkedRuns == \E w \in Threads : w.stopped /\ Worker(w)
UnmarkedRuns == \E w \in Threads : ~w.stopped /\ Worker(w)

FairSpec ==
    /\ Spec
    /\ WF_vars(ForegroundResumes)
    /\ SF_vars(MarkedRuns)
    /\ SF_vars(UnmarkedRuns)

\* ------------------------------------------------------------------ ping_ip
\* Lines 131-143 and 421-422: the command ping.  An address validate_ip
\* refuses is answered at once; otherwise ping is run and its output is
\* returned, or run_command reports what check_output raised.
PingOutcomes == {"ping_output", "command_error"}

ping_ip(ip, outcome) ==
    /\ fpc = "idle"
    /\ fpc' = "ret"
    /\ Out(IF ~validate_ip(ip) THEN Result("invalid_ip", Some(ip), None)
           ELSE Result(outcome, Some(ip), None), <<>>)
    /\ UNCHANGED << monitoring_active, traffic_generation_active,
                    current_target, current_port, config, call, workers >>

\* The console used for ping only.
PingNext ==
    \/ \E ip \in AddressStrings, outcome \in PingOutcomes : ping_ip(ip, outcome)
    \/ Prompt

ValidatorSpec == Init /\ [][PingNext]_vars

\* ---------------------------------------------------------------- shutdown
\* Lines 387-389 and 445-447: the command exit, or the end of the input,
\* resets self.running; the loop of line 436 ends.
Exit ==
    /\ fpc = "idle"
    /\ fpc' = "x450"
    /\ Out(Result("exiting", None, None), <<>>)
    /\ UNCHANGED << monitoring_active, traffic_generation_active,
                    current_target, current_port, config, call, workers >>

\* Lines 450-451: stop_monitoring() is called if monitoring is active.
X_450 ==
    /\ fpc = "x450"
    /\ fpc' = "x452"
    /\ monitoring_active' = FALSE
    /\ workers' = IF monitoring_active THEN MarkStopped("monitor") ELSE workers
    /\ Silent
    /\ UNCHANGED << traffic_generation_active, current_target, current_port,
                    config, call >>

\* Lines 452-453: stop_traffic() is called if traffic is active.
X_452 ==
    /\ fpc = "x452"
    /\ fpc' = "x455"
    /\ traffic_generation_active' = FALSE
    /\ workers' = IF traffic_generation_active THEN MarkStopped("traffic") ELSE workers
    /\ Out(NoResult, IF traffic_generation_active
                     THEN << Msg("traffic_stopped", current_target, current_port, 0) >>
                     ELSE <<>>)
    /\ UNCHANGED << monitoring_active, current_target, current_port, config, call >>

\* Line 455: "Bot stopped" is logged, start() and main() return and the
\* process ends; no thread is joined and the threads are daemons (lines 203
\* and 276), so they end where they are.
X_455 ==
    /\ fpc = "x455"
    /\ fpc' = "exited"
    /\ Out(NoResult, << Msg("bot_stopped", None, None, 0) >>)
    /\ UNCHANGED << monitoring_active, traffic_generation_active,
                    current_target, current_port, config, call, workers >>

Shutdown == Exit \/ X_450 \/ X_452 \/ X_455

\* The console with an operator who may leave.
NextOrExit == Next \/ Shutdown

ExitSpec == Init /\ [][NextOrExit]_vars

\* ----------------------------------------------------- a stored configuration
\* Lines 66-77: load_config returns what the configuration file holds, here
\* a longer interval and other lists of default ports (one with a port
\* listed twice).
LoadedPorts == { <<443>>, <<22, 443>>, <<443, 443>> }

LoadedConfigs ==
    { [DEFAULT_CONFIG EXCEPT !.monitoring_interval = n, !.default_ports = ps] :
        n \in {MaxInterval, MaxInterval + 1}, ps \in LoadedPorts }

LoadedInit ==
    /\ monitoring_active = FALSE
    /\ traffic_generation_active = FALSE
    /\ current_target = None
    /\ current_port = None
    /\ config \in LoadedConfigs
    /\ fpc = "idle"
    /\ call = NoCall
    /\ workers = EmptyBag
    /\ result = NoResult
    /\ emitted = <<>>

\* The console used for monitoring only: the commands monitor and
\* stopmonitor and the monitoring threads.
MonitorNext ==
    \/ \E ip \in MonitorIpArgs : SM_Begin(ip)
    \/ SM_276
    \/ STM_Begin \/ STM_283
    \/ Prompt
    \/ \E w \in AtLoopHead, raised \in BOOLEAN : \E outcomes \in ProbeRuns(raised) :
         M_Cycle(w, raised, outcomes)
    \/ \E w \in Threads : M_Exit(w)
    \/ \E w \in Threads : M_Wait(w)
    \/ \E w \in Threads : M_Sleep(w)
    \/ \E w \in Threads : M_270(w)
    \/ \E w \in Threads : M_271(w)

MonitorSpec == LoadedInit /\ [][MonitorNext]_vars

\* ------------------------------------------------------------------ claims
\* Number of threads of kind k of bag b that are in their loop.
LoopCount(b, k) ==
    BagCardinality([ w \in { x \in BagToSet(b) : x.kind = k /\ InLoop(x) }
                       |-> CopiesIn(w, b) ])

\* Number of threads of kind k of bag b that have not ended.
AliveCount(b, k) ==
    BagCardinality([ w \in { x \in BagToSet(b) : x.kind = k /\ ~Ended(x) }
                       |-> CopiesIn(w, b) ])

AcceptablePort(port) == ~Truthy(port) \/ validate_port(Val(port))

\* C1: generate_traffic called with a valid target while a traffic session is
\* active returns a conflict result, starts no thread and leaves the flag,
\* the target, the port and the running threads as they were.
C1_StartTrafficWhileActiveIsRejected ==
    [][ \A ip \in TrafficIpArgs, port \in PortArgs, d \in DurationArgs, r \in PpsArgs :
          ( /\ GT_Begin(ip, port, d, r)
            /\ validate_ip(ip) /\ AcceptablePort(port)
            /\ traffic_generation_active )
          => ( /\ result'.kind = "traffic_already_active"
               /\ fpc' = "ret"
               /\ UNCHANGED << traffic_generation_active, current_target,
                               current_port, workers >> ) ]_vars

\* C2: at most one monitoring thread is in its loop at any time.
C2_AtMostOneMonitoringWorker == LoopCount(workers, "monitor") <= 1

\* C3: start_monitoring called with a valid address while monitoring is
\* active returns the conflict message, starts no thread and changes no
\* state: monitoring stays active and show_status shows the address the
\* running monitoring session was started with.
C3_StartMonitoringWhileActiveIsRejected ==
    [][ \A ip \in MonitorIpArgs :
          ( SM_Begin(ip) /\ validate_ip(ip) /\ monitoring_active )
          => ( /\ result' = Result("monitoring_already_active", None, None)
               /\ emitted' = <<>>
               /\ fpc' = "ret"
               /\ monitoring_active'
               /\ UNCHANGED << monitoring_active, traffic_generation_active,
                               current_target, current_port, workers >>
               /\ \A w \in Threads :
                    (w.kind = "monitor" /\ InLoop(w) /\ ~w.stopped)
                    => Status'.monitorTarget = Some(Some(w.ip)) ) ]_vars

\* C4: stop_traffic / stop_monitoring called while no session of that kind
\* is active return the fixed nothing-to-stop result, change neither flag,
\* target nor port and emit nothing; and a stop call that has returned
\* leaves the flag of its kind cleared and only a start call sets a flag,
\* so that a second stop in a row is such a call.
C4_StopWithoutSessionIsNoOp ==
    [][ /\ ( ST_Begin /\ ~traffic_generation_active )
           => ( /\ result' = Result("no_traffic_to_stop", None, None)
                /\ emitted' = <<>>
                /\ fpc' = "ret"
                /\ UNCHANGED << monitoring_active, traffic_generation_active,
                                current_target, current_port, workers, config >> )
        /\ ( STM_Begin /\ ~monitoring_active )
           => ( /\ result' = Result("no_monitoring_to_stop", None, None)
                /\ emitted' = <<>>
                /\ fpc' = "ret"
                /\ UNCHANGED << monitoring_active, traffic_generation_active,
                                current_target, current_port, workers, config >> )
        /\ ST_210 => ~traffic_generation_active'
        /\ STM_283 => ~monitoring_active'
        /\ ( ~traffic_generation_active /\ traffic_generation_active' )
           => fpc' = "gt203"
        /\ ( ~monitoring_active /\ monitoring_active' )
           => fpc' = "sm276" ]_vars

\* C4 witness: stop_traffic has just returned nothing-to-stop after a
\* session of that kind had run.
C4_Witness ==
    /\ result.kind = "no_traffic_to_stop"
    /\ ~traffic_generation_active
    /\ \E w \in Threads : w.kind = "traffic"

\* C5: once stop_traffic has cleared the flag of an active session, the
\* traffic thread leaves its loop at its next check of the flag, whatever
\* command follows: a thread marked by the stop call performs no further
\* unit of work.
C5_StoppedTrafficWorkerLeavesAtNextCheck ==
    [][ \A w \in Threads, o \in UnitOutcomes : ~( w.stopped /\ T_Unit(w, o) ) ]_vars

\* C6: once stop_monitoring has cleared the flag of an active session, the
\* monitoring thread of that session eventually leaves its loop, whatever
\* the foreground does afterwards.
StoppedMonitorInLoop == \E w \in Threads : w.kind = "monitor" /\ w.stopped

C6_StoppedMonitorEventuallyExits == StoppedMonitorInLoop ~> ~StoppedMonitorInLoop

\* C7: while monitoring is active show_status shows the address the
\* monitoring session was started with, and while traffic is active the
\* address and port the traffic session was started with, whatever the
\* other kind does.
C7_StatusShowsOwnSession ==
    /\ monitoring_active =>
         /\ fpc = "sm276" => Status.monitorTarget = Some(Some(call.ip))
         /\ \A w \in Threads :
              (w.kind = "monitor" /\ InLoop(w) /\ ~w.stopped)
              => Status.monitorTarget = Some(Some(w.ip))
    /\ traffic_generation_active =>
         /\ fpc = "gt203" =>
              /\ Status.trafficTarget = Some(Some(call.ip))
              /\ Status.trafficPort = Some(Some(call.port))
         /\ \A w \in Threads :
              (w.kind = "traffic" /\ InLoop(w) /\ ~w.stopped)
              => /\ Status.trafficTarget = Some(Some(w.ip))
                 /\ Status.trafficPort = Some(Some(w.port))

\* C8: generate_traffic rejects every call whose target is invalid or whose
\* port is given and outside 1..65535 (0 and negative values included), and
\* a rejected call creates no session: flag, target and port unchanged,
\* nothing notified, no thread started.
C8_InvalidTargetOrPortIsRejected ==
    [][ \A ip \in TrafficIpArgs, port \in PortArgs, d \in DurationArgs, r \in PpsArgs :
          ( /\ GT_Begin(ip, port, d, r)
            /\ \/ ~validate_ip(ip)
               \/ (port # None /\ ~(1 <= Val(port) /\ Val(port) <= 65535)) )
          => ( /\ result'.kind \in {"invalid_ip", "invalid_port"}
               /\ emitted' = <<>>
               /\ fpc' = "ret"
               /\ UNCHANGED << traffic_generation_active, current_target,
                               current_port, workers >> ) ]_vars

\* C9: a failed unit of work never ends a traffic session: the step that
\* logs the failure leaves the flag set and every traffic thread in its
\* loop, and the flag is cleared only by stop_traffic or by a thread that
\* has left its loop, which a thread does only when its duration has
\* elapsed or the flag is clear.
TrafficErrorLogged(m) == Len(m) = 1 /\ m[1].kind = "traffic_error"

C10_NoDeadSessionBelievedAlive ==
    /\ monitoring_active => (AliveCount(workers, "monitor") >= 1 \/ fpc = "sm276")
    /\ traffic_generation_active => (AliveCount(workers, "traffic") >= 1 \/ fpc = "gt203")
    /\ \A w \in Threads : Ended(w) => w.cleared

\* C11: every report of a monitoring cycle has exactly the configured
\* default ports as the keys of its port status, each mapped to open, closed
\* or error, whatever each probe met.
C11_ReportMapsEveryConfiguredPort ==
    [][ \A i \in 1..Len(emitted') :
          emitted'[i].kind = "monitoring_report"
          => /\ DOMAIN emitted'[i].port_status = SeqRange(config.default_ports)
             /\ \A p \in DOMAIN emitted'[i].port_status :
                  emitted'[i].port_status[p] \in {"open", "closed", "error"} ]_vars

\* C11 witness: a report over two ports, one probe of which raised while
\* the other connected.
C11_Witness ==
    /\ Len(emitted) = 1
    /\ emitted[1].kind = "monitoring_report"
    /\ DOMAIN emitted[1].port_status = {22, 443}
    /\ emitted[1].port_status[22] = "error"
    /\ emitted[1].port_status[443] = "open"

\* What a running session reads when it needs a setting.  The traffic thread
\* reads its local variables duration and pps (lines 174, 189), set when the
\* call began (lines 156-160); the monitoring thread reads self.config at
\* every use (lines 240, 262, 268).
DurationUsed(w) == w.limit    \* in ticks: duration * pps
RateUsed(w) == w.rate
IntervalUsed(w) == config.monitoring_interval
PortsUsed(w) == config.default_ports

\* C12: a set_config issued while a session is running changes neither the
\* duration and rate a running traffic session uses nor the interval and
\* port set a running monitoring session uses.
C12_RunningSessionKeepsItsConfig ==
    [][ \A k \in ConfigKeys, v \in ConfigValues :
          set_config(k, v)
          => \A w \in Threads :
               InLoop(w)
               => /\ w \in BagToSet(workers')
                  /\ w.kind = "traffic"
                     => /\ DurationUsed(w)' = DurationUsed(w)
                        /\ RateUsed(w)' = RateUsed(w)
                  /\ w.kind = "monitor"
                     => /\ IntervalUsed(w)' = IntervalUsed(w)
                        /\ PortsUsed(w)' = PortsUsed(w) ]_vars

\* C13: when the shutdown sequence of start() has ended, every thread has
\* reached the end of its cleanup: none is left in its loop or before its
\* final notification.
C13_WorkersFinishBeforeExit ==
    fpc = "exited" => \A w \in Threads : Ended(w)

\* C14: the packet count of a traffic session (duration D, rate R, time in
\* ticks of 1/R seconds) never decreases while the session runs, never
\* exceeds D x R, and the count of the final report is the count reached,
\* at most D x R, whether the thread left by expiry or after a stop.
C14_CountIsMonotoneAndBounded ==
    [][ /\ \A w \in { t \in Threads : t.pc = "t174" }, o \in UnitOutcomes :
             T_Unit(w, o)
             => \E w2 \in BagToSet(workers') :
                  /\ workers' = Moved(w, w2)
                  /\ w2.count >= w.count
                  /\ w2.count <= DurationUsed(w)
        /\ \A w \in BagToSet(workers') :
             (w.kind = "traffic" /\ ~Ended(w)) => w.count <= DurationUsed(w)
        /\ \A w \in { t \in Threads : t.pc = "t196" } :
             T_196(w)
             => /\ emitted'[1].kind = "traffic_completed"
                /\ emitted'[1].count = w.count
                /\ emitted'[1].count <= DurationUsed(w) ]_vars

\* C14 witness: the final report of a session whose count has reached
\* D x R of the default configuration.
C14_Witness ==
    /\ Len(emitted) = 1
    /\ emitted[1].kind = "traffic_completed"
    /\ emitted[1].count = DEFAULT_CONFIG.traffic_generation_duration
                          * DEFAULT_CONFIG.max_packets_per_second
    /\ emitted[1].count >= 1

\* A well-formed dotted quad: four numeric parts, each in 0..255.
DottedQuad(ip) == Len(ip) = 4 /\ \A i \in 1..4 : 0 <= ip[i] /\ ip[i] <= 255

\* C15: validate_ip fails for every malformed address string and succeeds
\* for every well-formed dotted quad: the address is refused exactly when
\* it is no dotted quad (fewer than four parts and parts above 255
\* included).
C15_ValidateIpAcceptsExactlyDottedQuads ==
    [][ \A ip \in AddressStrings, outcome \in PingOutcomes :
          ping_ip(ip, outcome)
          => ( (result'.kind = "invalid_ip") <=> ~DottedQuad(ip) ) ]_vars

\* C16: a monitoring thread that waits between two cycles reads the flag at
\* every tick of one second, also in the wait that follows a cycle that
\* raised: a tick it takes once the flag is clear ends its wait.
C16_WaitEndsAtFirstTickAfterStop ==
    [][ \A w \in Threads :
          ( /\ w.kind = "monitor"
            /\ w.pc \in {"m262", "m268"}
            /\ ~monitoring_active
            /\ (M_Wait(w) \/ M_Sleep(w)) )
          => \E w2 \in BagToSet(workers') :
               workers' = Moved(w, w2) /\ w2.pc = "m232" ]_vars

\* C17: a traffic thread leaves its loop only when its own duration has
\* elapsed or a stop call has been made since its session started; once out
\* of the loop it clears the flag and reports its final count.
C17_TrafficExitOnlyByExpiryOrStop ==
    [][ \A w \in Threads :
          /\ T_Exit(w) => (w.elapsed >= DurationUsed(w) \/ w.stopped)
          /\ T_195(w) => ~traffic_generation_active'
          /\ T_196(w) => emitted'[1].count = w.count ]_vars

\* C18: the packet count grows by one in an iteration whose connect, send
\* and close all succeeded and stays as it is in an iteration whose connect
\* or send failed.
C18_CountsCompletedUnitsOnly ==
    [][ \A w \in Threads, o \in UnitOutcomes :
          T_Unit(w, o)
          => \E w2 \in BagToSet(workers') :
               /\ workers' = Moved(w, w2)
               /\ w2.count = w.count + (IF o = "ok" THEN 1 ELSE 0) ]_vars

\* C19: the result of a stop_traffic call that stopped a session names a
\* target and a port, never None.
C19_StoppedResultNamesTheSession ==
    [][ ST_210 => ( /\ result'.kind = "stopped_traffic"
                    /\ result'.target # None
                    /\ result'.port # None ) ]_vars

====
